---- MODULE Spec2Model ----
(***************************************************************************)
(* A model of platemate's data layer (src/platemate/data.py):              *)
(*   - Reference: the analyte -> standard -> value table, its three        *)
(*     constructors, put, get and dataframe (specification Spec);          *)
(*   - Well.__init__ and Well.from_series (specification SpecWell);        *)
(*   - Plate.from_dataframe (specification SpecPlate);                     *)
(*   - WellStatisticList.search (specification SpecSearch).                *)
(* Python dicts are functions whose DOMAIN is the key set, Python lists    *)
(* are sequences, Python strings are sequences of one-character strings,   *)
(* and a raised exception is the "outcome" field of a call's result.       *)
(***************************************************************************)
EXTENDS Integers, Sequences, FiniteSets, TLC

(* ------------------------------ bounds -------------------------------- *)
\* the largest numeric cell value
MaxValue == 2
\* the largest number of rows of a reference table
MaxRows == 2
\* the largest length of a location text
MaxLocLen == 3
\* the largest length of the text after the keyword of a sample identifier
MaxAffix == 2
\* the largest length of a WellStatisticList handed to search
MaxStats == 3

\* Python's None, where the other values are strings
None == "None"
Analytes == {"A", "B"}
Standards == {"S1", "S2"}
Values == 1..MaxValue

(* --------------------------- Python dicts ----------------------------- *)
EmptyDict == <<>>

\* d[k] = v
DictSet(d, k, v) == [x \in (DOMAIN d) \cup {k} |-> IF x = k THEN v ELSE d[x]]

(***************************************************************************)
(*                              Reference                                  *)
(***************************************************************************)
VARIABLES
    pc,       \* "new" before a constructor ran, "ready" after, "failed" if it raised
    kind,     \* the class of self.data: "dict" or "defaultdict"
    data,     \* self.data: analyte -> (standard -> value)
    result,   \* the last call: its arguments, its outcome and what it returned
    lastPut,  \* history: the value of the last completed put per (analyte, standard), 0 if none
    call,     \* SpecWell, SpecPlate, SpecSearch: the call to make
    ret       \* SpecWell, SpecPlate, SpecSearch: what the call returned or raised

vars == <<pc, kind, data, result, lastPut, call, ret>>
refVars == <<pc, kind, data, result, lastPut>>
pureVars == <<call, ret>>

\* every nested mapping a caller can hand to Reference(data=...)
InnerDicts == UNION {[S -> Values] : S \in SUBSET Standards}
Mappings == UNION {[A -> InnerDicts] : A \in SUBSET Analytes}

\* the records of a table: to_dict("records") gives one dict per row, column -> cell
ColumnNames == {"analyte"} \cup Standards
RowsOver(cols) ==
    {[c \in cols |-> IF c = "analyte" THEN a ELSE f[c]] :
        a \in Analytes, f \in [cols \ {"analyte"} -> Values]}
Tables ==
    UNION {[columns : {cols}, rows : UNION {[1..n -> RowsOver(cols)] : n \in 0..MaxRows}] :
        cols \in SUBSET ColumnNames}

\* x['analyte']: {k: v for k, v in x.items() if k != 'analyte'} for x in records; the
\* KeyError of a record without 'analyte' is re-raised as the schema error
RECURSIVE RefRecords(_, _)
RefRecords(records, acc) ==
    IF records = <<>> THEN [outcome |-> "ok", data |-> acc]
    ELSE LET x == Head(records) IN
         IF "analyte" \notin DOMAIN x
         THEN [outcome |-> "SchemaError", data |-> EmptyDict]
         ELSE RefRecords(Tail(records),
                  DictSet(acc, x["analyte"], [k \in (DOMAIN x) \ {"analyte"} |-> x[k]]))

_ref_from_dataframe(t) == RefRecords(t.rows, EmptyDict)

\* self.data = data or defaultdict(dict): None and the empty dict are both falsy
InitKind(m) == IF m = EmptyDict THEN "defaultdict" ELSE "dict"

NoPuts == [p \in Analytes \X Standards |-> 0]

\* Reference()
RefInitDefault ==
    /\ pc = "new"
    /\ pc' = "ready"
    /\ kind' = "defaultdict"
    /\ data' = EmptyDict
    /\ result' = [op |-> "init", outcome |-> "ok"]
    /\ UNCHANGED <<lastPut, pureVars>>

\* Reference(data=m), for any mapping m
RefInitMapping ==
    /\ pc = "new"
    /\ \E m \in Mappings :
         /\ pc' = "ready"
         /\ kind' = InitKind(m)
         /\ data' = m
         /\ result' = [op |-> "init", outcome |-> "ok"]
    /\ UNCHANGED <<lastPut, pureVars>>

\* Reference.from_dataframe(t), for any table t; from_csv and from_excel read the table
\* and do the same
RefFromDataframe ==
    /\ pc = "new"
    /\ \E t \in Tables :
         LET r == _ref_from_dataframe(t) IN
         /\ pc' = IF r.outcome = "ok" THEN "ready" ELSE "failed"
         /\ kind' = IF r.outcome = "ok" THEN InitKind(r.data) ELSE kind
         /\ data' = IF r.outcome = "ok" THEN r.data ELSE data
         /\ result' = [op |-> "from_dataframe", table |-> t, outcome |-> r.outcome]
    /\ UNCHANGED <<lastPut, pureVars>>

\* self.data[analyte] as an expression: a plain dict raises KeyError on a missing key, a
\* defaultdict(dict) inserts an empty dict under it and returns that
OuterGetItem(k, d, a) ==
    IF a \in DOMAIN d THEN [outcome |-> "ok", data |-> d]
    ELSE IF k = "defaultdict" THEN [outcome |-> "ok", data |-> DictSet(d, a, EmptyDict)]
    ELSE [outcome |-> "KeyError", data |-> d]

\* self.data[analyte][standard] = value, with the inner dict replaced instead of updated
RefPutReplacing(k, d, a, s, v) ==
    LET o == OuterGetItem(k, d, a) IN
    IF o.outcome # "ok" THEN o
    ELSE [outcome |-> "ok", data |-> DictSet(o.data, a, DictSet(EmptyDict, s, v))]

\* self.data[analyte][standard] = value
RefPut(k, d, a, s, v) ==
    LET o == OuterGetItem(k, d, a) IN
    IF o.outcome # "ok" THEN o
    ELSE [outcome |-> "ok", data |-> DictSet(o.data, a, DictSet(o.data[a], s, v))]

Put(a, s, v) ==
    /\ pc = "ready"
    /\ LET r == RefPut(kind, data, a, s, v) IN
         /\ data' = r.data
         /\ result' = [op |-> "put", analyte |-> a, standard |-> s, value |-> v,
                       outcome |-> r.outcome]
         /\ lastPut' = IF r.outcome = "ok" THEN [lastPut EXCEPT ![<<a, s>>] = v] ELSE lastPut
    /\ UNCHANGED <<pc, kind, pureVars>>

\* {a: self.data[a][standard] for a in self.data.keys()}, stopping at the first analyte
\* that has some value instead of raising on one that lacks the standard
ByStandardPartial(d, s) ==
    [outcome |-> "ok",
     ret |-> [a \in {x \in DOMAIN d : s \in DOMAIN d[x]} |-> d[a][s]]]

\* {a: self.data[a][standard] for a in self.data.keys()}
ByStandard(d, s) ==
    IF \A a \in DOMAIN d : s \in DOMAIN d[a]
    THEN [outcome |-> "ok", ret |-> [a \in DOMAIN d |-> d[a][s]]]
    ELSE [outcome |-> "KeyError", ret |-> <<>>]

\* Reference.get: what it returns or raises, and self.data afterwards. A KeyError inside
\* the try block is re-raised as the "Invalid analyte/standard" error (NotFound).
RefGet(k, d, a, s) ==
    IF a # None THEN
        LET o == OuterGetItem(k, d, a) IN
        IF o.outcome # "ok" THEN [outcome |-> "NotFound", ret |-> <<>>, data |-> o.data]
        ELSE IF s # None THEN
            IF s \in DOMAIN o.data[a]
            THEN [outcome |-> "ok", ret |-> o.data[a][s], data |-> o.data]
            ELSE [outcome |-> "NotFound", ret |-> <<>>, data |-> o.data]
        ELSE [outcome |-> "ok", ret |-> o.data[a], data |-> o.data]
    ELSE IF s # None THEN
        LET b == ByStandard(d, s) IN
        IF b.outcome = "ok" THEN [outcome |-> "ok", ret |-> b.ret, data |-> d]
        ELSE [outcome |-> "NotFound", ret |-> <<>>, data |-> d]
    ELSE [outcome |-> "InvalidArgument", ret |-> <<>>, data |-> d]

Get(a, s) ==
    /\ pc = "ready"
    /\ LET r == RefGet(kind, data, a, s) IN
         /\ data' = r.data
         /\ result' = [op |-> "get", analyte |-> a, standard |-> s,
                       outcome |-> r.outcome, ret |-> r.ret]
    /\ UNCHANGED <<pc, kind, lastPut, pureVars>>

\* pd.DataFrame(self.data).T: one row per analyte, one column per standard of any
\* analyte, NaN where an analyte has no value; self.data is only read
RefDataframe(d) ==
    LET cols == UNION {DOMAIN d[a] : a \in DOMAIN d} IN
    [a \in DOMAIN d |-> [s \in cols |-> IF s \in DOMAIN d[a] THEN <<d[a][s]>> ELSE <<>>]]

Dataframe ==
    /\ pc = "ready"
    /\ result' = [op |-> "dataframe", outcome |-> "ok", ret |-> RefDataframe(data)]
    /\ UNCHANGED <<pc, kind, data, lastPut, pureVars>>

NoCall == [op |-> "none"]

Init ==
    /\ pc = "new"
    /\ kind = "dict"
    /\ data = EmptyDict
    /\ result = [op |-> "none", outcome |-> "ok"]
    /\ lastPut = NoPuts
    /\ call = NoCall
    /\ ret = NoCall

Next ==
    \/ RefInitDefault
    \/ RefInitMapping
    \/ RefFromDataframe
    \/ \E a \in Analytes, s \in Standards, v \in Values : Put(a, s, v)
    \/ \E a \in Analytes \cup {None}, s \in Standards \cup {None} : Get(a, s)
    \/ Dataframe

Spec == Init /\ [][Next]_vars

(***************************************************************************)
(*                    Python strings and the re module                     *)
(***************************************************************************)
AsciiDigits == <<"0", "1", "2", "3", "4", "5", "6", "7", "8", "9">>

\* what \d and [0-9] accept
IsDigit(c) == \E i \in 1..Len(AsciiDigits) : AsciiDigits[i] = c
DigitValue(c) == (CHOOSE i \in 1..Len(AsciiDigits) : AsciiDigits[i] = c) - 1

\* int(text) of a non-empty run of digits
RECURSIVE PyInt(_)
PyInt(t) ==
    IF t = <<>> THEN 0
    ELSE 10 * PyInt(SubSeq(t, 1, Len(t) - 1)) + DigitValue(t[Len(t)])

\* the longest run of digits of s that starts at position i: what the greedy \d+ takes
RECURSIVE DigitRun(_, _)
DigitRun(s, i) ==
    IF i <= Len(s) /\ IsDigit(s[i]) THEN <<s[i]>> \o DigitRun(s, i + 1) ELSE <<>>

\* re.search(r"(\d+).*", s): the leftmost match starts at the first digit of s; without
\* a digit there is no match and search returns None
ReSearchDigits(s) ==
    IF \E i \in 1..Len(s) : IsDigit(s[i])
    THEN LET i == CHOOSE k \in 1..Len(s) : IsDigit(s[k]) /\ \A j \in 1..(k - 1) : ~IsDigit(s[j])
         IN [matched |-> TRUE, group1 |-> DigitRun(s, i)]
    ELSE [matched |-> FALSE, group1 |-> <<>>]

\* A pattern is a sequence of items, each a character class, possibly repeated by +
Lit(cs) == [chars |-> cs, plus |-> FALSE]
Plus(cs) == [chars |-> cs, plus |-> TRUE]
DigitClass == {AsciiDigits[i] : i \in 1..Len(AsciiDigits)}

\* "[Ss]tandard[0-9]+"
DefaultStandardPattern ==
    <<Lit({"S", "s"}), Lit({"t"}), Lit({"a"}), Lit({"n"}), Lit({"d"}), Lit({"a"}),
      Lit({"r"}), Lit({"d"}), Plus(DigitClass)>>
\* "[Bb]ackground[0-9]+"
DefaultBackgroundPattern ==
    <<Lit({"B", "b"}), Lit({"a"}), Lit({"c"}), Lit({"k"}), Lit({"g"}), Lit({"r"}),
      Lit({"o"}), Lit({"u"}), Lit({"n"}), Lit({"d"}), Plus(DigitClass)>>

\* whether a prefix of s matches the pattern
RECURSIVE MatchHere(_, _)
MatchHere(pat, s) ==
    IF pat = <<>> THEN TRUE
    ELSE IF s = <<>> THEN FALSE
    ELSE /\ Head(s) \in Head(pat).chars
         /\ \/ MatchHere(Tail(pat), Tail(s))
            \/ Head(pat).plus /\ MatchHere(pat, Tail(s))

\* re.search(pattern, s) is not None: a match anywhere in s
ReSearch(pat, s) == \E i \in 1..(Len(s) + 1) : MatchHere(pat, SubSeq(s, i, Len(s)))

\* re.match(pattern, s) is not None: a match at the start of s
ReMatch(pat, s) == MatchHere(pat, s)

(***************************************************************************)
(*                    WellStatistic, WellStatisticList                     *)
(***************************************************************************)
WellStatistic(datatype, variable, value) ==
    [datatype |-> datatype, variable |-> variable, value |-> value]

\* search with the two filters joined by "or" instead of "and"
SearchEither(self, datatype, variable) ==
    IF datatype # None THEN
        IF variable # None
        THEN [outcome |-> "ok",
              list |-> SelectSeq(self, LAMBDA ws : ws.datatype = datatype \/ ws.variable = variable)]
        ELSE [outcome |-> "ok", list |-> SelectSeq(self, LAMBDA ws : ws.datatype = datatype)]
    ELSE IF variable # None
        THEN [outcome |-> "ok", list |-> SelectSeq(self, LAMBDA ws : ws.variable = variable)]
    ELSE [outcome |-> "InvalidArgument", list |-> <<>>]

\* WellStatisticList.search; the ValueError is the InvalidArgument outcome
search(self, datatype, variable) ==
    IF datatype # None THEN
        IF variable # None
        THEN [outcome |-> "ok",
              list |-> SelectSeq(self, LAMBDA ws : ws.datatype = datatype /\ ws.variable = variable)]
        ELSE [outcome |-> "ok", list |-> SelectSeq(self, LAMBDA ws : ws.datatype = datatype)]
    ELSE IF variable # None
        THEN [outcome |-> "ok", list |-> SelectSeq(self, LAMBDA ws : ws.variable = variable)]
    ELSE [outcome |-> "InvalidArgument", list |-> <<>>]

(***************************************************************************)
(*                                 Well                                    *)
(***************************************************************************)
\* Well.__init__. location is <<n>> for the integer n and <<>> for None. When the text
\* has no digit, re.search returns None and None.group(1) raises AttributeError, which
\* the except clause (IndexError, ValueError) does not catch.
WellInit(location, sample_id, d, standard, background) ==
    LET m == ReSearchDigits(location) IN
    IF ~m.matched THEN [outcome |-> "AttributeError"]
    ELSE [outcome |-> "ok",
          well |-> [location_str |-> location, sample_id |-> sample_id, data |-> d,
                    standard |-> standard, background |-> background,
                    location |-> <<PyInt(m.group1)>>]]

\* Well.from_series: row is [index: the field names in order, values: field -> cell]
from_series(row, datatype, standard_pattern, background_pattern) ==
    LET variables == SelectSeq(row.index, LAMBDA i : i \notin {"Location", "Sample"})
        d == [k \in 1..Len(variables) |->
                 WellStatistic(datatype, variables[k], row.values[variables[k]])]
    IN WellInit(row.values["Location"], row.values["Sample"], d,
                ReMatch(standard_pattern, row.values["Sample"]),
                ReMatch(background_pattern, row.values["Sample"]))

(***************************************************************************)
(*                                 Plate                                   *)
(***************************************************************************)
\* _plate_from_dataframe: one Well.from_series per row of data.iterrows(), in row
\* order; the first row whose Well cannot be built ends the comprehension
RECURSIVE _plate_from_dataframe(_, _, _, _)
_plate_from_dataframe(columns, rows, standard_pattern, background_pattern) ==
    IF rows = <<>> THEN [outcome |-> "ok", wells |-> <<>>]
    ELSE LET w == from_series([index |-> columns, values |-> Head(rows)],
                              "fluorescence intensity", standard_pattern, background_pattern)
         IN IF w.outcome # "ok" THEN [outcome |-> w.outcome, wells |-> <<>>]
            ELSE LET rest == _plate_from_dataframe(columns, Tail(rows),
                                                   standard_pattern, background_pattern)
                 IN IF rest.outcome # "ok" THEN rest
                    ELSE [outcome |-> "ok", wells |-> <<w.well>> \o rest.wells]

\* Plate.from_dataframe with the default patterns and no metadata
PlateFromDataframe(t) ==
    LET r == _plate_from_dataframe(t.columns, t.rows,
                                   DefaultStandardPattern, DefaultBackgroundPattern)
    IN IF r.outcome # "ok" THEN [outcome |-> r.outcome]
       ELSE [outcome |-> "ok",
             plate |-> [data |-> r.wells, filepath |-> None, run_datetime |-> None,
                        batch_id |-> None, meta |-> None]]

(***************************************************************************)
(*        The calls of SpecWell, SpecPlate and SpecSearch                  *)
(***************************************************************************)
\* every sequence over S of length at most n
SeqsUpTo(S, n) == UNION {[1..k -> S] : k \in 0..n}
\* every ordering of the set S
Perms(S) == {f \in [1..Cardinality(S) -> S] : \A i, j \in DOMAIN f : i # j => f[i] # f[j]}

\* location texts
LocChars == {"A", "0", "1", "2"}
Locations == SeqsUpTo(LocChars, MaxLocLen)

\* sample identifiers: a keyword, with a short text after it and possibly before it
Keywords ==
    {<<"S", "t", "a", "n", "d", "a", "r", "d">>, <<"s", "t", "a", "n", "d", "a", "r", "d">>,
     <<"S", "T", "A", "N", "D", "A", "R", "D">>, <<"S", "t", "a", "n", "d", "a", "r">>,
     <<"B", "a", "c", "k", "g", "r", "o", "u", "n", "d">>,
     <<"b", "a", "c", "k", "g", "r", "o", "u", "n", "d">>,
     <<"U", "n", "k", "n", "o", "w", "n">>, <<>>}
AffixChars == {"1", "x"}
Samples ==
    {p \o w \o x : p \in SeqsUpTo(AffixChars, 1), w \in Keywords,
                   x \in SeqsUpTo(AffixChars, MaxAffix)}

Standard1 == <<"S", "t", "a", "n", "d", "a", "r", "d", "1">>
Unknown == <<"U", "n", "k", "n", "o", "w", "n">>

Datatypes == {"fluorescence intensity", "bead count"}
Variables == {"X", "Y"}
Statistics ==
    {WellStatistic(dt, var, val) : dt \in Datatypes, var \in Variables, val \in {1, 2}}

\* a table row or a series: the fields Location and Sample and the measurement fields
\* of cols, each with a cell
RowDicts(cols, locs, samples) ==
    {[c \in cols |-> IF c = "Location" THEN l ELSE IF c = "Sample" THEN sm ELSE f[c]] :
        l \in locs, sm \in samples, f \in [cols \ {"Location", "Sample"} -> Values]}

SeriesLocations == {<<"A", "1", "2">>, <<"1", "2", "B">>, <<"A", "B">>}
Series ==
    UNION {[index : Perms({"Location", "Sample"} \cup M),
            values : RowDicts({"Location", "Sample"} \cup M, SeriesLocations, Samples)] :
        M \in SUBSET {"X"}}

WellCalls ==
    [op : {"Well"}, location : Locations, sample_id : {Standard1, Unknown},
     data : {<<>>, <<WellStatistic("bead count", "X", 1)>>},
     standard : BOOLEAN, background : BOOLEAN]
    \cup [op : {"from_series"}, row : Series, datatype : {"fluorescence intensity"}]

PlateLocations == {<<"A", "1">>, <<"B", "2">>, <<"A", "B">>}
PlateTables ==
    UNION {[columns : Perms({"Location", "Sample"} \cup M),
            rows : SeqsUpTo(RowDicts({"Location", "Sample"} \cup M, PlateLocations,
                                     {Standard1, Unknown}), MaxRows)] :
        M \in SUBSET Variables}
PlateCalls == [op : {"Plate.from_dataframe"}, table : PlateTables]

SearchCalls ==
    [op : {"search"}, self : SeqsUpTo(Statistics, MaxStats),
     datatype : Datatypes \cup {None}, variable : Variables \cup {None}]

\* Well(location, sample_id, data, standard, background)
CallWellInit ==
    /\ call.op = "Well" /\ ret = NoCall
    /\ LET r == WellInit(call.location, call.sample_id, call.data,
                         call.standard, call.background)
       IN ret' = [op |-> "Well"] @@ r
    /\ UNCHANGED <<call, refVars>>

\* Well.from_series(row, datatype) with the default patterns
CallFromSeries ==
    /\ call.op = "from_series" /\ ret = NoCall
    /\ LET r == from_series(call.row, call.datatype,
                            DefaultStandardPattern, DefaultBackgroundPattern)
       IN ret' = [op |-> "from_series"] @@ r
    /\ UNCHANGED <<call, refVars>>

\* Plate.from_dataframe(table)
CallPlateFromDataframe ==
    /\ call.op = "Plate.from_dataframe" /\ ret = NoCall
    /\ ret' = [op |-> "Plate.from_dataframe"] @@ PlateFromDataframe(call.table)
    /\ UNCHANGED <<call, refVars>>

\* self.search(datatype, variable)
CallSearch ==
    /\ call.op = "search" /\ ret = NoCall
    /\ ret' = [op |-> "search"] @@ search(call.self, call.datatype, call.variable)
    /\ UNCHANGED <<call, refVars>>

InitCalls(calls) ==
    /\ pc = "new"
    /\ kind = "dict"
    /\ data = EmptyDict
    /\ result = [op |-> "none", outcome |-> "ok"]
    /\ lastPut = NoPuts
    /\ call \in calls
    /\ ret = NoCall

InitWell == InitCalls(WellCalls)
NextWell == CallWellInit \/ CallFromSeries
SpecWell == InitWell /\ [][NextWell]_vars

InitPlate == InitCalls(PlateCalls)
NextPlate == CallPlateFromDataframe
SpecPlate == InitPlate /\ [][NextPlate]_vars

InitSearch == InitCalls(SearchCalls)
NextSearch == CallSearch
SpecSearch == InitSearch /\ [][NextSearch]_vars

(***************************************************************************)
(*                              Properties                                 *)
(***************************************************************************)
\* whether get(analyte=a, standard=s) on the mapping d looks up a key d does not have
MissingKey(d, a, s) ==
    IF a # None
    THEN a \notin DOMAIN d \/ (s # None /\ s \notin DOMAIN d[a])
    ELSE s # None /\ \E x \in DOMAIN d : s \notin DOMAIN d[x]

\* C1: every get that looks up a missing key (an absent analyte, a standard absent under
\* the analyte, or a standard some analyte lacks) fails with NotFound and returns nothing,
\* on every Reference however it was constructed.
C1_GetMissingKeyIsNotFound ==
    [][(result'.op = "get" /\ MissingKey(data, result'.analyte, result'.standard))
          => result'.outcome = "NotFound"]_vars

\* C2: every put(analyte, standard, value) succeeds, on every Reference however it was
\* constructed and whether or not the analyte exists, and afterwards
\* data[analyte][standard] = value.
C2_PutAlwaysUpserts ==
    result.op = "put" =>
        /\ result.outcome = "ok"
        /\ result.analyte \in DOMAIN data
        /\ result.standard \in DOMAIN data[result.analyte]
        /\ data[result.analyte][result.standard] = result.value

\* C3: a get call (returning or failing) and a dataframe call leave the data mapping,
\* its set of analytes and every analyte's standards and values, exactly as it was.
C3_OnlyPutChangesData ==
    [][result'.op \in {"get", "dataframe"} => data' = data]_vars

\* C5: from_dataframe on a table without an "analyte" column fails with SchemaError, with
\* any number of rows, zero included, and builds no Reference.
C5_NoAnalyteColumnIsSchemaError ==
    (result.op = "from_dataframe" /\ "analyte" \notin result.table.columns)
        => (result.outcome = "SchemaError" /\ pc = "failed")

C7_ByStandardAllOrNothing ==
    [][(result'.op = "get" /\ result'.analyte = None /\ result'.standard # None) =>
          IF \E a \in DOMAIN data : result'.standard \notin DOMAIN data[a]
          THEN result'.outcome = "NotFound" /\ result'.ret = <<>>
          ELSE /\ result'.outcome = "ok"
               /\ DOMAIN result'.ret = DOMAIN data
               /\ \A a \in DOMAIN data : result'.ret[a] = data[a][result'.standard]]_vars

\* a get by standard returned a series of two analytes
C7_Witness ==
    /\ result.op = "get"
    /\ result.analyte = None
    /\ result.standard = "S1"
    /\ result.outcome = "ok"
    /\ DOMAIN result.ret = {"A", "B"}
    /\ result.ret["A"] # result.ret["B"]

\* whether a statistic passes every filter that was given
Matches(ws, datatype, variable) ==
    /\ datatype # None => ws.datatype = datatype
    /\ variable # None => ws.variable = variable

\* the k-th smallest element of the set of indices I
KthOf(I, k) == CHOOSE i \in I : Cardinality({j \in I : j <= i}) = k

\* C8: search(datatype, variable) returns exactly the elements of the list that match
\* every given filter, in the list's order, and fails with InvalidArgument when both
\* filters are omitted.
C8_SearchSubsequence ==
    ret.op = "search" =>
        IF call.datatype = None /\ call.variable = None
        THEN ret.outcome = "InvalidArgument"
        ELSE LET I == {i \in 1..Len(call.self) :
                          Matches(call.self[i], call.datatype, call.variable)}
             IN /\ ret.outcome = "ok"
                /\ Len(ret.list) = Cardinality(I)
                /\ \A k \in 1..Len(ret.list) : ret.list[k] = call.self[KthOf(I, k)]

\* a search with both filters kept the first and the third of three statistics
C8_Witness ==
    /\ ret.op = "search"
    /\ call.datatype # None
    /\ call.variable # None
    /\ Len(call.self) = 3
    /\ ~Matches(call.self[2], call.datatype, call.variable)
    /\ call.self[2].datatype = call.datatype
    /\ call.self[1] # call.self[3]
    /\ ret.outcome = "ok"
    /\ ret.list = <<call.self[1], call.self[3]>>

\* the location text of the Well a call constructs
LocationText == IF call.op = "Well" THEN call.location ELSE call.row.values["Location"]

\* C4: constructing a Well never fails because of its location text: with a run of
\* digits in it the location is the first run as an integer, without one it is null.
C4_WellLocationNeverFails ==
    ret.op \in {"Well", "from_series"} =>
        /\ ret.outcome = "ok"
        /\ ret.well.location =
              IF \E i \in 1..Len(LocationText) : IsDigit(LocationText[i])
              THEN <<PyInt(ReSearchDigits(LocationText).group1)>>
              ELSE <<>>

\* the fields of a table other than Location and Sample, in the table's order
StatColumns(columns) == SelectSeq(columns, LAMBDA c : c \notin {"Location", "Sample"})

\* what C9 says of the wells built from the table t
PlateWellsAsTable(wells, t) ==
    /\ Len(wells) = Len(t.rows)
    /\ \A i \in 1..Len(wells) :
          /\ Len(wells[i].data) = Len(t.columns) - 2
          /\ \A k \in 1..Len(wells[i].data) :
                wells[i].data[k] =
                    WellStatistic("fluorescence intensity", StatColumns(t.columns)[k],
                                  t.rows[i][StatColumns(t.columns)[k]])

\* C9: building a Plate from a table with N rows yields exactly N wells in row order,
\* each with one "fluorescence intensity" statistic per column other than Location and
\* Sample, in column order, carrying the row's value.
C9_PlateHasOneWellPerRow ==
    ret.op = "Plate.from_dataframe" =>
        (ret.outcome = "ok" /\ PlateWellsAsTable(ret.plate.data, call.table))

\* C9, for the tables the build does not fail on: the build fails only on a row whose
\* location text has no digit, and the wells of a built Plate are as C9 says.
PlateBuiltOrLocationWithoutDigit ==
    ret.op = "Plate.from_dataframe" =>
        IF ret.outcome = "ok"
        THEN PlateWellsAsTable(ret.plate.data, call.table)
        ELSE \E i \in 1..Len(call.table.rows) :
                \A j \in 1..Len(call.table.rows[i]["Location"]) :
                    ~IsDigit(call.table.rows[i]["Location"][j])

\* whether s begins with one of the words immediately followed by a digit
KeywordThenDigit(s, words) ==
    \E w \in words :
        /\ Len(s) > Len(w)
        /\ SubSeq(s, 1, Len(w)) = w
        /\ IsDigit(s[Len(w) + 1])

\* C10: for a Well built from a row with the default patterns, standard is true exactly
\* when sample_id begins with "Standard" or "standard" immediately followed by a digit,
\* and background exactly when it begins with "Background" or "background" immediately
\* followed by a digit, each flag whatever the other is.
C10_FlagsFollowSampleId ==
    (ret.op = "from_series" /\ ret.outcome = "ok") =>
        /\ ret.well.sample_id = call.row.values["Sample"]
        /\ ret.well.standard <=>
              KeywordThenDigit(ret.well.sample_id,
                  {<<"S", "t", "a", "n", "d", "a", "r", "d">>,
                   <<"s", "t", "a", "n", "d", "a", "r", "d">>})
        /\ ret.well.background <=>
              KeywordThenDigit(ret.well.sample_id,
                  {<<"B", "a", "c", "k", "g", "r", "o", "u", "n", "d">>,
                   <<"b", "a", "c", "k", "g", "r", "o", "u", "n", "d">>})

\* a Well was built from a row whose sample is "standard1x": a standard, with text after
\* the digits
C10_Witness ==
    /\ ret.op = "from_series"
    /\ ret.outcome = "ok"
    /\ ret.well.sample_id = <<"s", "t", "a", "n", "d", "a", "r", "d", "1", "x">>
    /\ ret.well.standard
    /\ ~ret.well.background

====
